---- MODULE Spec2Model ----
(***************************************************************************)
(* The physics kernel of the gravity simulation (src/Sphere.cpp,           *)
(* Sphere::updatePhysics and Sphere::calculateGravitationalForces) as a    *)
(* state machine over a list of bodies and a configuration, and the render *)
(* loop of src/gravity_sim.cpp (processInput, updatePhysics, render) that  *)
(* drives it.                                                              *)
(*                                                                         *)
(* Specifications.  Spec runs the kernel on body lists and configurations  *)
(* built through the public constructors.  BuildSpec builds the body list  *)
(* and the configuration step by step and then runs the kernel.  SimSpec   *)
(* is the program gravity_sim: its two bodies, the default configuration   *)
(* and the render loop with every key.  DampingSpec is the same program    *)
(* over a longer run in which only the '+' and '-' keys are used.          *)
(*                                                                         *)
(* Numbers.  The source computes in IEEE floats; the model computes in     *)
(* fixed point.  A velocity is an integer count of 1/VelPerUnit units per  *)
(* second and a position an integer count of 1/PosPerUnit units, with      *)
(* PosPerUnit = VelPerUnit / deltaTime, so that position += velocity *     *)
(* deltaTime is exact.  Products and quotients that leave the grid are     *)
(* rounded toward zero where the float operation would round to nearest    *)
(* (the constant gravity * deltaTime is rounded to the nearest point).     *)
(* bounceDamping is a count of tenths (the input layer moves it by 0.1).   *)
(* A mass is a count of 1e15 kg (MOON_MASS, src/gravity_sim.cpp:20).       *)
(***************************************************************************)
EXTENDS Integers, Sequences, FiniteSets, TLC

VARIABLES
    spheres,        \* std::vector<SpherePhysics>: the body list
    physicsConfig,  \* PhysicsConfig
    debugCounter,   \* static int debugCounter of calculateGravitationalForces
    start,          \* history: the body list the simulation started from
    prev,           \* history: the body list the last step started from
    last,           \* history: what the last step did
    freeRun,        \* history: no boundary check has fired in any step so far
    steps,          \* number of updatePhysics calls made so far
    pc,             \* position of main in the render loop
    keys,           \* the keys GLFW reports as down (set by glfwPollEvents)
    shouldClose,    \* the window's close flag
    pressed,        \* the static bool xPressed flags of processInput
    lastInput,      \* history: what the last processInput call found, did and left
    inputs,         \* number of processInput calls made so far
    renders,        \* number of frames rendered so far
    drawn           \* history: the body list renderAllSpheres last read

vars == <<spheres, physicsConfig, debugCounter, start, prev, last, freeRun, steps,
          pc, keys, shouldClose, pressed, lastInput, inputs, renders, drawn>>

\* The state of the input layer.
inputVars == <<pc, keys, shouldClose, pressed, lastInput, inputs, renders, drawn>>

----------------------------------------------------------------------------
\* Bounds of the model.

MaxSteps == 3
MaxBodies == 3

\* Frames of the render loop in SimSpec, and in the long run of DampingSpec.
MaxFrames == 4
MaxLongFrames == 22

----------------------------------------------------------------------------
\* Units and program constants.

\* deltaTime = 1.0f / 60.0f, kept as its inverse.
DeltaTimeInv == 60

\* Velocity grid: one unit is deltaTime (1/60) units per second.
VelPerUnit == DeltaTimeInv

\* Position grid: one velocity unit moves a body one position unit per step.
PosPerUnit == VelPerUnit * DeltaTimeInv

\* gravity = 9.8f, in tenths.
gravityTenths == 98

\* bounceDamping is counted in tenths: 1.0f is DampingScale.
DampingScale == 10

\* distanceScale = 100.0f
distanceScale == 100

\* gravitationalConstant = 6.67430e-11f times the mass unit 1e15 kg.
gravitationalConstant == 66743

\* Resolution of the unit direction vector (dx / distance).
DirScale == 1000

\* float maxVelocity = 10.0f
maxVelocity == 10 * VelPerUnit

\* bottomBoundary = -2.0f, topBoundary = 2.0f
DefaultBottomBoundary == (-2) * PosPerUnit
DefaultTopBoundary == 2 * PosPerUnit

\* leftBoundary, rightBoundary, frontBoundary, backBoundary of updatePhysics
leftBoundary == (-3) * PosPerUnit
rightBoundary == 3 * PosPerUnit
frontBoundary == (-3) * PosPerUnit
backBoundary == 3 * PosPerUnit

\* config.gravity * config.deltaTime on the velocity grid (9.8 / 60 units/s).
gravityDeltaV == (gravityTenths * VelPerUnit + 5 * DeltaTimeInv) \div (10 * DeltaTimeInv)

\* G * (mass unit) / distanceScale^2 with distances counted in position units:
\* the acceleration, in velocity units per step, is GravK * mass / distance^2.
GravK == gravitationalConstant
           * ((PosPerUnit \div distanceScale) * (PosPerUnit \div distanceScale))

----------------------------------------------------------------------------
\* Arithmetic helpers.

Abs(a) == IF a < 0 THEN -a ELSE a

\* Quotient rounded toward zero (b # 0).
DivT(a, b) ==
    LET q == Abs(a) \div Abs(b)
    IN IF (a < 0) = (b < 0) THEN q ELSE -q

\* a * b / s rounded toward zero, for a, b of any sign, without forming a * b
\* when b is large (s > 0, |a| <= s).
MulDiv(a, b, s) ==
    LET m == Abs(a)
        n == Abs(b)
        q == m * (n \div s) + (m * (n % s)) \div s
    IN IF (a < 0) = (b < 0) THEN q ELSE -q

\* std::min / std::max on floats
Min(a, b) == IF b < a THEN b ELSE a
Max(a, b) == IF a < b THEN b ELSE a

RECURSIVE SqrtSearch(_, _, _)
SqrtSearch(n, lo, hi) ==
    IF lo >= hi THEN lo
    ELSE LET mid == (lo + hi + 1) \div 2
         IN IF mid * mid <= n THEN SqrtSearch(n, mid, hi)
            ELSE SqrtSearch(n, lo, mid - 1)

\* sqrt on the position grid: the largest r with r * r <= n.
Sqrt(n) == SqrtSearch(n, 0, Min(n, 46340))

----------------------------------------------------------------------------
\* Sphere::calculateGravitationalForces

\* The clamp of one velocity component to [-maxVelocity, maxVelocity].
ClampVelocity(v) == Max(-maxVelocity, Min(maxVelocity, v))

\* distance of the pair before scaling (0 when the positions are identical).
Distance(sphere1, sphere2) ==
    LET dx == sphere2.x - sphere1.x
        dy == sphere2.y - sphere1.y
        dz == sphere2.z - sphere1.z
    IN Sqrt(dx * dx + dy * dy + dz * dz)

\* Gforce = G * m1 * m2 / (distance * distanceScale)^2
Gforce(sphere1, sphere2, distance) ==
    DivT(GravK * sphere1.mass * sphere2.mass, distance * distance)

\* acc[k] * config.deltaTime for k = X, Y, Z: the velocity change the pair
\* update adds to sphere1 and subtracts from sphere2 (distance > 0).
PairAcc(sphere1, sphere2) ==
    LET dx == sphere2.x - sphere1.x
        dy == sphere2.y - sphere1.y
        dz == sphere2.z - sphere1.z
        distance == Distance(sphere1, sphere2)
        direction == <<DivT(dx * DirScale, distance),
                       DivT(dy * DirScale, distance),
                       DivT(dz * DirScale, distance)>>
        acc1 == DivT(Gforce(sphere1, sphere2, distance), sphere1.mass)
    IN [k \in 1..3 |-> MulDiv(direction[k], acc1, DirScale)]

\* The velocity changes of the two bodies of a pair, before clamping.
PairDeltaV(sphere1, sphere2) ==
    LET acc == PairAcc(sphere1, sphere2)
    IN [first |-> acc, second |-> [k \in 1..3 |-> -acc[k]]]

\* The velocity update without the clamp of lines 203-211.
AddVelocityUnclamped(sphere, dv) ==
    [sphere EXCEPT !.velocityX = @ + dv[1],
                   !.velocityY = @ + dv[2],
                   !.velocityZ = @ + dv[3]]

\* The velocity update that also moves the body by the velocity change.
AddVelocityAndMove(sphere, dv) ==
    [sphere EXCEPT !.velocityX = ClampVelocity(@ + dv[1]),
                   !.velocityY = ClampVelocity(@ + dv[2]),
                   !.velocityZ = ClampVelocity(@ + dv[3]),
                   !.x = @ + dv[1], !.y = @ + dv[2], !.z = @ + dv[3]]

AddVelocity(sphere, dv) ==
    [sphere EXCEPT !.velocityX = ClampVelocity(@ + dv[1]),
                   !.velocityY = ClampVelocity(@ + dv[2]),
                   !.velocityZ = ClampVelocity(@ + dv[3])]

VelocityOf(sphere) == <<sphere.velocityX, sphere.velocityY, sphere.velocityZ>>

\* What the inner loop did for the pair (i, j): the distance it computed,
\* whether it took the branch that divides by the distance, and the
\* velocities of the two bodies before and after.
PairEntry(i, j, distance, divided, before, after) ==
    [pair |-> <<i, j>>, distance |-> distance, divided |-> divided,
     before |-> <<VelocityOf(before[i]), VelocityOf(before[j])>>,
     after |-> <<VelocityOf(after[i]), VelocityOf(after[j])>>]

\* The body of the inner loop for the pair (i, j).  st carries the body list,
\* the static debug counter, the pairs visited (and what was done for each)
\* and the number of debug reports written to std::cout.

\* The pair update with the velocity changes moved into the debug branch:
\* they are applied only when the debug counter is a multiple of 60.
PairUpdateOnReport(st, i, j) ==
    LET sphere1 == st.spheres[i]
        sphere2 == st.spheres[j]
        distance == Distance(sphere1, sphere2)
        visited == Append(st.pairs, <<i, j>>)
    IN IF distance > 0
       THEN LET dv == PairDeltaV(sphere1, sphere2)
                changed == IF st.debugCounter % 60 = 0
                           THEN [st.spheres EXCEPT
                                    ![i] = AddVelocity(sphere1, dv.first),
                                    ![j] = AddVelocity(sphere2, dv.second)]
                           ELSE st.spheres
            IN [spheres |-> changed,
                debugCounter |-> st.debugCounter + 1,
                pairs |-> visited,
                log |-> Append(st.log,
                               PairEntry(i, j, distance, TRUE, st.spheres, changed)),
                printed |-> IF st.debugCounter % 60 = 0
                            THEN st.printed + 1 ELSE st.printed,
                ran |-> st.ran]
       ELSE [st EXCEPT !.pairs = visited,
                       !.log = Append(@, PairEntry(i, j, distance, FALSE,
                                                   st.spheres, st.spheres))]

\* The pair update without the distance guard: a pair at zero distance goes
\* through the update (with a zero direction), the clamp and the debug count.
PairUpdateUnguarded(st, i, j) ==
    LET sphere1 == st.spheres[i]
        sphere2 == st.spheres[j]
        distance == Distance(sphere1, sphere2)
        dv == IF distance > 0 THEN PairDeltaV(sphere1, sphere2)
              ELSE [first |-> <<0, 0, 0>>, second |-> <<0, 0, 0>>]
        changed == [st.spheres EXCEPT ![i] = AddVelocity(sphere1, dv.first),
                                      ![j] = AddVelocity(sphere2, dv.second)]
    IN [spheres |-> changed,
        debugCounter |-> st.debugCounter + 1,
        pairs |-> Append(st.pairs, <<i, j>>),
        log |-> Append(st.log, PairEntry(i, j, distance, TRUE, st.spheres, changed)),
        printed |-> IF st.debugCounter % 60 = 0 THEN st.printed + 1 ELSE st.printed,
        ran |-> st.ran]

PairUpdate(st, i, j) ==
    LET sphere1 == st.spheres[i]
        sphere2 == st.spheres[j]
        distance == Distance(sphere1, sphere2)
        visited == Append(st.pairs, <<i, j>>)
    IN IF distance > 0
       THEN LET dv == PairDeltaV(sphere1, sphere2)
                changed == [st.spheres EXCEPT ![i] = AddVelocity(sphere1, dv.first),
                                              ![j] = AddVelocity(sphere2, dv.second)]
            IN [spheres |-> changed,
                debugCounter |-> st.debugCounter + 1,
                pairs |-> visited,
                log |-> Append(st.log,
                               PairEntry(i, j, distance, TRUE, st.spheres, changed)),
                printed |-> IF st.debugCounter % 60 = 0
                            THEN st.printed + 1 ELSE st.printed,
                ran |-> st.ran]
       ELSE [st EXCEPT !.pairs = visited,
                       !.log = Append(@, PairEntry(i, j, distance, FALSE,
                                                   st.spheres, st.spheres))]

\* The inner loop stopping one body short (j < spheres.size() - 1).
RECURSIVE InnerLoopShort(_, _, _)
InnerLoopShort(st, i, j) ==
    IF j >= Len(st.spheres) THEN st
    ELSE InnerLoopShort(PairUpdate(st, i, j), i, j + 1)

RECURSIVE InnerLoop(_, _, _)
InnerLoop(st, i, j) ==
    IF j > Len(st.spheres) THEN st
    ELSE InnerLoop(PairUpdate(st, i, j), i, j + 1)

RECURSIVE OuterLoop(_, _)
OuterLoop(st, i) ==
    IF i > Len(st.spheres) THEN st
    ELSE OuterLoop(InnerLoop(st, i, i + 1), i + 1)

\* The state of the two loops before the first pair.
NoPairs(list, counter) ==
    [spheres |-> list, debugCounter |-> counter,
     pairs |-> <<>>, log |-> <<>>, printed |-> 0, ran |-> FALSE]

calculateGravitationalForces(list, config, counter) ==
    OuterLoop(NoPairs(list, counter), 1)

----------------------------------------------------------------------------
\* Sphere::updatePhysics, the body of the loop over the spheres.

\* sphere.velocityY -= config.gravity * config.deltaTime
applyEarthGravity(sphere, config) ==
    [sphere EXCEPT !.velocityY = @ - gravityDeltaV]

\* The reflection without the damping factor.
ReflectUndamped(v, config) == -v

\* A reflection that returns more than it received: the factor 2 - bounceDamping
\* in place of bounceDamping.
ReflectGain(v, config) ==
    DivT((-v) * (2 * DampingScale - config.bounceDamping), DampingScale)

\* -v * config.bounceDamping
Reflect(v, config) == DivT((-v) * config.bounceDamping, DampingScale)

\* sphere.x/y/z += velocity * deltaTime
updatePosition(sphere) ==
    [sphere EXCEPT !.x = @ + sphere.velocityX,
                   !.y = @ + sphere.velocityY,
                   !.z = @ + sphere.velocityZ]

HitsBottom(sphere, config) == sphere.y - sphere.radius < config.bottomBoundary

\* The bottom check reflecting the velocity (or stopping the body, in wrap
\* mode) without moving the body.
checkBottomVelocityOnly(sphere, config) ==
    IF HitsBottom(sphere, config)
    THEN IF config.enableBounce
         THEN [sphere EXCEPT !.velocityY = Reflect(sphere.velocityY, config)]
         ELSE [sphere EXCEPT !.velocityY = 0]
    ELSE sphere

checkBottom(sphere, config) ==
    IF HitsBottom(sphere, config)
    THEN IF config.enableBounce
         THEN [sphere EXCEPT !.y = config.bottomBoundary + sphere.radius,
                             !.velocityY = Reflect(sphere.velocityY, config)]
         ELSE [sphere EXCEPT !.y = config.topBoundary + sphere.radius,
                             !.velocityY = 0]
    ELSE sphere

HitsTop(sphere, config) == sphere.y + sphere.radius > config.topBoundary

\* The step without the top check.
checkTopMissing(sphere, config) == sphere

\* The top check as an else branch of the bottom check: a body at or above
\* topBoundary + radius is taken to have just wrapped and is left alone.
checkTopElse(sphere, config) ==
    IF HitsTop(sphere, config) /\ sphere.y < config.topBoundary + sphere.radius
    THEN [sphere EXCEPT !.y = config.topBoundary - sphere.radius,
                        !.velocityY = 0]
    ELSE sphere

checkTop(sphere, config) ==
    IF HitsTop(sphere, config)
    THEN [sphere EXCEPT !.y = config.topBoundary - sphere.radius,
                        !.velocityY = 0]
    ELSE sphere

\* The left wall reflecting the velocity without moving the body back.
checkLeftReflectOnly(sphere, config) ==
    IF sphere.x - sphere.radius < leftBoundary
    THEN [sphere EXCEPT !.velocityX = Reflect(sphere.velocityX, config)]
    ELSE sphere

checkLeft(sphere, config) ==
    IF sphere.x - sphere.radius < leftBoundary
    THEN [sphere EXCEPT !.x = leftBoundary + sphere.radius,
                        !.velocityX = Reflect(sphere.velocityX, config)]
    ELSE sphere

\* The right wall following enableBounce as the bottom boundary does: with
\* bounce disabled the body wraps to the left wall and stops.
checkRightWrap(sphere, config) ==
    IF sphere.x + sphere.radius > rightBoundary
    THEN IF config.enableBounce
         THEN [sphere EXCEPT !.x = rightBoundary - sphere.radius,
                             !.velocityX = Reflect(sphere.velocityX, config)]
         ELSE [sphere EXCEPT !.x = leftBoundary + sphere.radius,
                             !.velocityX = 0]
    ELSE sphere

checkRight(sphere, config) ==
    IF sphere.x + sphere.radius > rightBoundary
    THEN [sphere EXCEPT !.x = rightBoundary - sphere.radius,
                        !.velocityX = Reflect(sphere.velocityX, config)]
    ELSE sphere

checkFront(sphere, config) ==
    IF sphere.z - sphere.radius < frontBoundary
    THEN [sphere EXCEPT !.z = frontBoundary + sphere.radius,
                        !.velocityZ = Reflect(sphere.velocityZ, config)]
    ELSE sphere

checkBack(sphere, config) ==
    IF sphere.z + sphere.radius > backBoundary
    THEN [sphere EXCEPT !.z = backBoundary - sphere.radius,
                        !.velocityZ = Reflect(sphere.velocityZ, config)]
    ELSE sphere

\* The six boundary checks in the order of the source.
resolveBoundaries(sphere, config) ==
    checkBack(checkFront(checkRight(checkLeft(
        checkTop(checkBottom(sphere, config), config), config), config), config), config)

\* The uniform term applied whatever the gravity mode.
velocityUpdateAlways(sphere, config) == applyEarthGravity(sphere, config)

\* The uniform term, applied only when pairwise attraction is disabled.
velocityUpdate(sphere, config) ==
    IF ~config.enableGravity THEN applyEarthGravity(sphere, config) ELSE sphere

\* The position update made before the velocity update (explicit Euler).
movedSpherePositionFirst(sphere, config) ==
    velocityUpdate(updatePosition(sphere), config)

\* A body as the loop over the spheres leaves the velocity update and the
\* position update, before its boundary checks.
movedSphere(sphere, config) == updatePosition(velocityUpdate(sphere, config))

\* One iteration of the loop over the spheres.
stepSphere(sphere, config) ==
    resolveBoundaries(movedSphere(sphere, config), config)

\* The force accumulation called whatever the gravity mode.
forcePhaseAlways(list, config, counter) ==
    [calculateGravitationalForces(list, config, counter) EXCEPT !.ran = TRUE]

\* The call of calculateGravitationalForces at the head of updatePhysics.
forcePhase(list, config, counter) ==
    IF config.enableGravity
    THEN [calculateGravitationalForces(list, config, counter) EXCEPT !.ran = TRUE]
    ELSE NoPairs(list, counter)

\* The loop over the spheres with a collision response in each iteration:
\* after its own update, body k exchanges velocityX with body k - 1 when the
\* two overlap on the x axis.
RECURSIVE sphereIterationsColliding(_, _, _)
sphereIterationsColliding(list, config, k) ==
    IF k > Len(list) THEN list
    ELSE LET stepped == [list EXCEPT ![k] = stepSphere(list[k], config)]
             overlap ==
                 /\ k > 1
                 /\ Abs(stepped[k].x - stepped[k - 1].x)
                       < stepped[k].radius + stepped[k - 1].radius
         IN sphereIterationsColliding(
                IF overlap
                THEN [stepped EXCEPT ![k].velocityX = stepped[k - 1].velocityX,
                                     ![k - 1].velocityX = stepped[k].velocityX]
                ELSE stepped,
                config, k + 1)

\* for (auto& sphere : spheres) { ... }: the iterations from body k on, each
\* one updating the list in place before the next begins.
RECURSIVE sphereIterations(_, _, _)
sphereIterations(list, config, k) ==
    IF k > Len(list) THEN list
    ELSE sphereIterations([list EXCEPT ![k] = stepSphere(list[k], config)],
                          config, k + 1)

\* The loop over the spheres, run on the result f of the force phase: the new
\* body list, the configuration as the call leaves it (it is passed by const
\* reference), the new debug counter, and what the call did: whether the
\* force accumulation ran, the body list it left (forced), the body list
\* before the boundary checks (moved), how many times the uniform term was
\* applied to each body, whether a boundary check fired, the pairs visited,
\* what was done for each, and the number of debug reports written.
sphereLoop(f, config) ==
    [spheres |-> sphereIterations(f.spheres, config, 1),
     config |-> config,
     debugCounter |-> f.debugCounter,
     forcesRan |-> f.ran,
     forced |-> f.spheres,
     moved |-> [k \in 1..Len(f.spheres) |-> movedSphere(f.spheres[k], config)],
     uniformApplied |->
         [k \in 1..Len(f.spheres) |->
             (f.spheres[k].velocityY
                 - velocityUpdate(f.spheres[k], config).velocityY) \div gravityDeltaV],
     contact |->
         \E k \in 1..Len(f.spheres) :
             stepSphere(f.spheres[k], config) # movedSphere(f.spheres[k], config),
     pairs |-> f.pairs,
     log |-> f.log,
     printed |-> f.printed]

\* The step erasing the last body of the list when that body wraps from the
\* bottom boundary.
updatePhysicsDropWrapped(list, config, counter) ==
    CHOOSE r \in
        { IF /\ Len(s.moved) > 0
             /\ ~config.enableBounce
             /\ HitsBottom(s.moved[Len(s.moved)], config)
          THEN [s EXCEPT !.spheres = SubSeq(@, 1, Len(@) - 1)]
          ELSE s :
            s \in { sphereLoop(f, config) :
                       f \in { forcePhase(list, config, counter) } } } : TRUE

\* Sphere::updatePhysics.  (The force phase is evaluated once and its result
\* handed to the loop over the spheres.)
updatePhysics(list, config, counter) ==
    CHOOSE r \in { sphereLoop(f, config) : f \in { forcePhase(list, config, counter) } } :
        TRUE

----------------------------------------------------------------------------
\* Inputs: the body lists and configurations the steps are run on.

\* Tenths of a unit on the position grid and on the velocity grid.
Pos(tenths) == tenths * (PosPerUnit \div 10)
Vel(tenths) == tenths * (VelPerUnit \div 10)

\* (position, velocity) of the first body on each axis, in tenths.
XInputs == { <<0, 0>>,        \* at rest in the middle
             <<-26, -10>>,    \* touching the left wall (radius 0.4), moving into it
             <<25, 120>> }    \* faster than maxVelocity, toward the right wall
YInputs == { <<0, 0>>,
             <<-21, -10>>,    \* below the bottom boundary, falling
             <<-16, 0>>,      \* resting on the bottom boundary (radius 0.4)
             <<-16, -30>>,    \* on the bottom boundary, falling at 3.0
             <<16, 30>> }     \* on the top boundary, rising
ZInputs == { <<0, 10>>,       \* the orbital velocity of gravity_sim.cpp
             <<26, 10>> }     \* touching the back wall, moving into it
RadiusInputs == { 4, 35 }     \* 0.4 as in gravity_sim.cpp; 3.5, wider than the arena
MassInputs == { 1, 2 }        \* in units of MOON_MASS

SpherePhysics(x, y, z, vx, vy, vz, r, m, c) ==
    [x |-> x, y |-> y, z |-> z,
     velocityX |-> vx, velocityY |-> vy, velocityZ |-> vz,
     radius |-> r, mass |-> m, color |-> c]

FirstBodies ==
    { SpherePhysics(Pos(px[1]), Pos(py[1]), Pos(pz[1]),
                    Vel(px[2]), Vel(py[2]), Vel(pz[2]), Pos(r), m, "red") :
        px \in XInputs, py \in YInputs, pz \in ZInputs,
        r \in RadiusInputs, m \in MassInputs }

\* The bodies that accompany the first one.
OtherBodies ==
    { SpherePhysics(Pos(5), 0, 0, 0, 0, 0, Pos(4), 1, "blue"),
      SpherePhysics(Pos(3), Pos(4), 0, 0, 0, Vel(-10), Pos(4), 2, "blue"),
      SpherePhysics(0, 0, 0, 0, 0, 0, Pos(4), 1, "blue"),
      SpherePhysics(Pos(5), Pos(-16), 0, 0, 0, 0, Pos(4), 2, "blue") }

\* The bodies that follow the second one.
FurtherBodies ==
    { SpherePhysics(Pos(-5), 0, Pos(5), 0, 0, 0, Pos(4), 1, "green") }

\* The lists of at most n bodies that follow the first one.
RECURSIVE Lists(_)
Lists(n) ==
    IF n = 0 THEN { <<>> }
    ELSE LET shorter == Lists(n - 1)
         IN shorter \cup { Append(l, b) : l \in { t \in shorter : Len(t) = n - 1 },
                                          b \in IF n = 1 THEN OtherBodies
                                                         ELSE FurtherBodies }

BodyLists == { <<b>> \o l : b \in FirstBodies, l \in Lists(MaxBodies - 1) }

Configs ==
    [enableBounce : BOOLEAN, bounceDamping : {8, DampingScale},
     enableGravity : BOOLEAN,
     bottomBoundary : {DefaultBottomBoundary}, topBoundary : {DefaultTopBoundary}]

NoStep == [config |-> <<>>, forcesRan |-> FALSE, forced |-> <<>>, moved |-> <<>>,
           uniformApplied |-> <<>>, contact |-> FALSE, pairs |-> <<>>,
           log |-> <<>>, printed |-> 0]

\* The keys processInput debounces with a static flag.
DebouncedKeys == {"B", "G", "UP", "DOWN", "R", "EQUAL", "MINUS"}

\* The keys whose blocks toggle a flag of the configuration.
ToggleKeys == {"B", "G"}

\* processInput has not been called: no key has been seen down.
NoInput == [keys |-> {}, acted |-> {}, config |-> <<>>, spheres |-> <<>>,
            configLeft |-> <<>>, spheresLeft |-> <<>>,
            rose |-> {}, transitions |-> [k \in ToggleKeys |-> 0]]

\* The input layer before the first frame: no key event has been polled, the
\* static flags are false.
InputInit ==
    /\ pc = "input"
    /\ keys = {}
    /\ shouldClose = FALSE
    /\ pressed = [k \in DebouncedKeys |-> FALSE]
    /\ lastInput = NoInput
    /\ inputs = 0
    /\ renders = 0
    /\ drawn = <<>>

Init ==
    /\ spheres \in BodyLists
    /\ physicsConfig \in Configs
    /\ debugCounter = 0
    /\ start = spheres
    /\ prev = spheres
    /\ last = NoStep
    /\ freeRun = TRUE
    /\ steps = 0
    /\ InputInit

\* The effect of one call Sphere::updatePhysics(spheres, physicsConfig).
Step ==
    /\ \E r \in { updatePhysics(spheres, physicsConfig, debugCounter) } :
          /\ spheres' = r.spheres
          /\ physicsConfig' = r.config
          /\ debugCounter' = r.debugCounter
          /\ last' = [config |-> physicsConfig,
                      forcesRan |-> r.forcesRan, forced |-> r.forced,
                      moved |-> r.moved, uniformApplied |-> r.uniformApplied,
                      contact |-> r.contact, pairs |-> r.pairs, log |-> r.log,
                      printed |-> r.printed]
          /\ freeRun' = (freeRun /\ ~r.contact)
    /\ prev' = spheres
    /\ steps' = steps + 1
    /\ UNCHANGED start

\* One call Sphere::updatePhysics(spheres, physicsConfig) by a caller that
\* does nothing else.
UpdatePhysics ==
    /\ steps < MaxSteps
    /\ Step
    /\ UNCHANGED inputVars

Next == UpdatePhysics

Spec == Init /\ [][Next]_vars

----------------------------------------------------------------------------
\* Construction of the body list and of the configuration by a caller of the
\* kernel (struct SpherePhysics and struct PhysicsConfig, src/Sphere.h).

\* PhysicsConfig with its default member initializers.
DefaultConfig ==
    [enableBounce |-> TRUE, bounceDamping |-> DampingScale, enableGravity |-> TRUE,
     bottomBoundary |-> DefaultBottomBoundary, topBoundary |-> DefaultTopBoundary]

\* Arguments of the SpherePhysics constructor: a body of positive mass,
\* faster than maxVelocity, and two of negative mass.  (A mass of 0 in the
\* first body of a pair makes acc1 the quotient 0 / 0, which has no value on
\* the grid.)  The same arguments may be given twice: two bodies at one place.
CtorInputs ==
    { SpherePhysics(0, 0, 0, 0, 0, Vel(120), Pos(4), 1, "red"),
      SpherePhysics(Pos(5), 0, 0, 0, 0, 0, Pos(4), -1, "blue"),
      SpherePhysics(Pos(-5), Pos(5), 0, 0, 0, 0, Pos(4), -2, "green") }

\* Values assigned to bottomBoundary and topBoundary, in tenths.
BoundaryInputs == { <<-20, 20>>, <<20, -20>>, <<0, 0>> }

BuildInit ==
    /\ spheres = <<>>
    /\ physicsConfig = DefaultConfig
    /\ debugCounter = 0
    /\ start = spheres
    /\ prev = spheres
    /\ last = NoStep
    /\ freeRun = TRUE
    /\ steps = 0
    /\ InputInit

\* spheres.push_back(SpherePhysics(...)) before the first step.
Construct ==
    /\ steps = 0
    /\ Len(spheres) < MaxBodies
    /\ \E b \in CtorInputs : spheres' = Append(spheres, b)
    /\ start' = spheres'
    /\ prev' = spheres'
    /\ UNCHANGED <<physicsConfig, debugCounter, last, freeRun, steps>>
    /\ UNCHANGED inputVars

\* Assignment of the two boundary members before the first step.
Configure ==
    /\ steps = 0
    /\ \E b \in BoundaryInputs :
          physicsConfig' = [physicsConfig EXCEPT !.bottomBoundary = Pos(b[1]),
                                                 !.topBoundary = Pos(b[2])]
    /\ UNCHANGED <<spheres, debugCounter, start, prev, last, freeRun, steps>>
    /\ UNCHANGED inputVars

BuildNext == Construct \/ Configure \/ UpdatePhysics

BuildSpec == BuildInit /\ [][BuildNext]_vars


----------------------------------------------------------------------------
\* The program gravity_sim: processInput and the render loop of main.

\* const float MOON_MASS = 1e15f, in units of 1e15 kg.
MOON_MASS == 1

\* std::vector<SpherePhysics> spheres of gravity_sim.cpp
InitialSpheres ==
    << SpherePhysics(Pos(-15), 0, 0, 0, 0, Vel(10), Pos(4), MOON_MASS, "red"),
       SpherePhysics(Pos(15), 0, 0, 0, 0, Vel(-10), Pos(4), MOON_MASS, "blue") >>

\* sphere.velocityZ *= 1.2f or 0.8f for every sphere (factor in tenths).
ScaleVelocityZ(list, tenths) ==
    [k \in 1..Len(list) |-> [list[k] EXCEPT !.velocityZ = DivT(@ * tenths, 10)]]

\* The effects of the keys on st = [spheres, config, pressed, shouldClose,
\* acted].
toggleBounce(st) == [st EXCEPT !.config.enableBounce = ~@]

toggleGravity(st) == [st EXCEPT !.config.enableGravity = ~@]

increaseVelocity(st) == [st EXCEPT !.spheres = ScaleVelocityZ(@, 12)]

decreaseVelocity(st) == [st EXCEPT !.spheres = ScaleVelocityZ(@, 8)]

\* spheres[0].velocityZ = 2.0f; spheres[1].velocityZ = -2.0f;
resetVelocities(st) ==
    [st EXCEPT !.spheres[1].velocityZ = Vel(20), !.spheres[2].velocityZ = Vel(-20)]

\* The '+' key adding 0.1 without the upper clamp.
increaseDampingUnclamped(st) == [st EXCEPT !.config.bounceDamping = @ + 1]

\* bounceDamping = std::min(1.0f, bounceDamping + 0.1f)
increaseDamping(st) ==
    [st EXCEPT !.config.bounceDamping = Min(DampingScale, @ + 1)]

\* bounceDamping = std::max(0.0f, bounceDamping - 0.1f)
decreaseDamping(st) == [st EXCEPT !.config.bounceDamping = Max(0, @ - 1)]

\* A key block without the static flag: the effect is made on every call that
\* finds the key down.
KeyBlockNoDebounce(st, down, key, effect) ==
    IF key \in down
    THEN [effect EXCEPT !.pressed[key] = TRUE, !.acted = @ \cup {key}]
    ELSE [st EXCEPT !.pressed[key] = FALSE]

\* One debounced key block of processInput, run on st: when the key is down
\* and its flag is clear the block makes its effect (leaving st as effect)
\* and sets the flag; the flag is cleared when the key is up.
KeyBlock(st, down, key, effect) ==
    LET fired == key \in down /\ ~st.pressed[key]
        s1 == IF fired
              THEN [effect EXCEPT !.pressed[key] = TRUE,
                                      !.acted = @ \cup {key}]
              ELSE st
    IN IF key \notin down THEN [s1 EXCEPT !.pressed[key] = FALSE] ELSE s1

\* if (glfwGetKey(window, GLFW_KEY_ESCAPE) == GLFW_PRESS) ...
EscapeBlock(st, down) ==
    IF "ESCAPE" \in down THEN [st EXCEPT !.shouldClose = TRUE] ELSE st

\* processInput: the key blocks in the order of the source.
processInput(list, config, flags, close, down) ==
    LET s0 == [spheres |-> list, config |-> config, pressed |-> flags,
               shouldClose |-> close, acted |-> {}]
        s1 == EscapeBlock(s0, down)
        s2 == KeyBlock(s1, down, "B", toggleBounce(s1))
        s3 == KeyBlock(s2, down, "G", toggleGravity(s2))
        s4 == KeyBlock(s3, down, "UP", increaseVelocity(s3))
        s5 == KeyBlock(s4, down, "DOWN", decreaseVelocity(s4))
        s6 == KeyBlock(s5, down, "R", resetVelocities(s5))
        s7 == KeyBlock(s6, down, "EQUAL", increaseDamping(s6))
    IN KeyBlock(s7, down, "MINUS", decreaseDamping(s7))

\* Key states glfwPollEvents may leave: no key, one key, or two keys at once.
KeyInputs ==
    { {} } \cup { {k} : k \in DebouncedKeys \cup {"ESCAPE"} }
           \cup { {"UP", "R"}, {"EQUAL", "MINUS"} }

\* The key states of the long run: only the '+' and '-' keys are used.
DampingKeyInputs == { {}, {"EQUAL"}, {"MINUS"} }

SimInit ==
    /\ spheres = InitialSpheres
    /\ physicsConfig = DefaultConfig
    /\ debugCounter = 0
    /\ start = spheres
    /\ prev = spheres
    /\ last = NoStep
    /\ freeRun = TRUE
    /\ steps = 0
    /\ InputInit

\* processInput called while the step of the frame has not been made: the
\* loop body calling it again before Sphere::updatePhysics.
ProcessInputTwice ==
    /\ pc \in {"input", "physics"}
    /\ \E r \in { processInput(spheres, physicsConfig, pressed, shouldClose, keys) } :
          /\ spheres' = r.spheres
          /\ physicsConfig' = r.config
          /\ pressed' = r.pressed
          /\ shouldClose' = r.shouldClose
          /\ lastInput' = [keys |-> keys, acted |-> r.acted,
                           config |-> physicsConfig, spheres |-> spheres,
                           configLeft |-> r.config, spheresLeft |-> r.spheres,
                           rose |-> keys \ lastInput.keys,
                           transitions |->
                               [k \in ToggleKeys |->
                                   lastInput.transitions[k]
                                     + IF k \in keys \ lastInput.keys
                                       THEN 1 ELSE 0]]
    /\ inputs' = inputs + 1
    /\ pc' = "physics"
    /\ UNCHANGED <<debugCounter, start, prev, last, freeRun, steps,
                   keys, renders, drawn>>

\* processInput(window) at the head of the loop body.
ProcessInput ==
    /\ pc = "input"
    /\ \E r \in { processInput(spheres, physicsConfig, pressed, shouldClose, keys) } :
          /\ spheres' = r.spheres
          /\ physicsConfig' = r.config
          /\ pressed' = r.pressed
          /\ shouldClose' = r.shouldClose
          /\ lastInput' = [keys |-> keys, acted |-> r.acted,
                           config |-> physicsConfig, spheres |-> spheres,
                           configLeft |-> r.config, spheresLeft |-> r.spheres,
                           rose |-> keys \ lastInput.keys,
                           transitions |->
                               [k \in ToggleKeys |->
                                   lastInput.transitions[k]
                                     + IF k \in keys \ lastInput.keys
                                       THEN 1 ELSE 0]]
    /\ inputs' = inputs + 1
    /\ pc' = "physics"
    /\ UNCHANGED <<debugCounter, start, prev, last, freeRun, steps,
                   keys, renders, drawn>>

\* Sphere::updatePhysics(spheres, physicsConfig) in the loop body.
StepFrame ==
    /\ pc = "physics"
    /\ Step
    /\ pc' = "render"
    /\ UNCHANGED <<keys, shouldClose, pressed, lastInput, inputs, renders, drawn>>

\* The rest of the loop body: renderAllSpheres reads the bodies,
\* glfwPollEvents takes the new key states, and the loop condition is tested.
Render(keyInputs) ==
    /\ pc = "render"
    /\ drawn' = spheres
    /\ renders' = renders + 1
    /\ keys' \in keyInputs
    /\ pc' = IF shouldClose THEN "done" ELSE "input"
    /\ UNCHANGED <<spheres, physicsConfig, debugCounter, start, prev, last,
                   freeRun, steps, shouldClose, pressed, lastInput, inputs>>

SimNext ==
    \/ (inputs < MaxFrames /\ ProcessInput)
    \/ StepFrame
    \/ Render(KeyInputs)

SimSpec == SimInit /\ [][SimNext]_vars

DampingNext ==
    \/ (inputs < MaxLongFrames /\ ProcessInput)
    \/ StepFrame
    \/ Render(DampingKeyInputs)

DampingSpec == SimInit /\ [][DampingNext]_vars

----------------------------------------------------------------------------
\* Vocabulary of the claims.

Bodies == 1..Len(spheres)

Stepped == steps > 0

\* Body k as the last step's boundary checks found it.
Moved(k) == last.moved[k]

\* Body k after the force accumulation of the last step (or as it entered the
\* step, when pairwise gravity is disabled).
Forced(k) == last.forced[k]

\* The pair (i, j) was visited in the last step at non-zero distance.
ActivePair(i, j) ==
    /\ \E n \in 1..Len(last.pairs) : last.pairs[n] = <<i, j>>
    /\ Distance(prev[i], prev[j]) > 0

\* Body k took part in a pair update of the last step.
InActivePair(k) == \E i \in Bodies : ActivePair(i, k) \/ ActivePair(k, i)

\* mass[1] * velocity[1] + mass[2] * velocity[2], per component.
Momentum(list) ==
    [c \in 1..3 |-> list[1].mass * VelocityOf(list[1])[c]
                      + list[2].mass * VelocityOf(list[2])[c]]

InClamp(v) == -maxVelocity <= v /\ v <= maxVelocity

----------------------------------------------------------------------------
\* C1 (as claimed).  Momentum conservation: in a two-body run with pairwise
\* gravity enabled, bounce disabled and no boundary contact so far, the
\* momentum mass[1]*velocity[1] + mass[2]*velocity[2] equals its value at the
\* start, in each component, for any positive masses.
C1_MomentumConserved ==
    ( /\ Stepped
      /\ Len(spheres) = 2
      /\ physicsConfig.enableGravity
      /\ ~physicsConfig.enableBounce
      /\ freeRun )
    => Momentum(spheres) = Momentum(start)

\* C2 (as claimed).  Symmetry of the pair update: for every pair (i, j) the
\* last step processed, mass[j] times the velocity change of j equals minus
\* mass[i] times the velocity change of i, before clamping.
C2_PairSymmetric ==
    Stepped =>
        \A i \in Bodies, j \in Bodies :
            ActivePair(i, j) =>
                LET dv == PairDeltaV(prev[i], prev[j])
                IN \A c \in 1..3 :
                      prev[j].mass * dv.second[c] = -(prev[i].mass * dv.first[c])

----------------------------------------------------------------------------
\* C3 (as claimed).  Velocity clamp: after every step every velocity component
\* of every body lies in [-10, 10], for any number of bodies, either gravity
\* mode, either bounce mode and any initial velocities.
C3_AllVelocitiesClamped ==
    Stepped =>
        \A k \in Bodies : \A c \in 1..3 : InClamp(VelocityOf(spheres[k])[c])

\* C3 (amended).  After a step run with pairwise gravity enabled and
\* bounceDamping in [0, 1], every body that took part in at least one pair
\* update at non-zero distance has all its velocity components in [-10, 10].
C3_PairedBodiesClamped ==
    ( /\ Stepped
      /\ last.forcesRan
      /\ physicsConfig.bounceDamping \in 0..DampingScale )
    => \A k \in Bodies :
          InActivePair(k) =>
              \A c \in 1..3 : InClamp(VelocityOf(spheres[k])[c])

\* A body entered a step faster than maxVelocity, took part in a pair update
\* and left the step within the clamp.
C3_Witness ==
    /\ Stepped
    /\ last.forcesRan
    /\ \E k \in Bodies :
          /\ InActivePair(k)
          /\ prev[k].velocityX > maxVelocity
          /\ InClamp(spheres[k].velocityX)

\* C4 (as claimed).  Horizontal containment: after every step every body's
\* centre satisfies -3 + radius <= x <= 3 - radius and the same for z, for
\* any body radius.
C4_HorizontalContainment ==
    Stepped =>
        \A k \in Bodies :
            /\ leftBoundary + spheres[k].radius <= spheres[k].x
            /\ spheres[k].x <= rightBoundary - spheres[k].radius
            /\ frontBoundary + spheres[k].radius <= spheres[k].z
            /\ spheres[k].z <= backBoundary - spheres[k].radius

\* C4 (amended).  The containment holds for every body whose radius is at
\* most 3, half the width of the arena.
C4_ContainmentWhenFits ==
    Stepped =>
        \A k \in Bodies :
            spheres[k].radius <= 3 * PosPerUnit =>
                /\ leftBoundary + spheres[k].radius <= spheres[k].x
                /\ spheres[k].x <= rightBoundary - spheres[k].radius
                /\ frontBoundary + spheres[k].radius <= spheres[k].z
                /\ spheres[k].z <= backBoundary - spheres[k].radius

\* A body of radius 0.4 crossed the left wall during the step and ended it
\* on the wall.
C4_Witness ==
    /\ Stepped
    /\ \E k \in Bodies :
          /\ spheres[k].radius <= 3 * PosPerUnit
          /\ Moved(k).x - Moved(k).radius < leftBoundary
          /\ spheres[k].x = leftBoundary + spheres[k].radius

\* Body k crossed the bottom boundary in the last step.
CrossedBottom(k) == Moved(k).y - Moved(k).radius < physicsConfig.bottomBoundary

\* C5 (as claimed).  Wrap determinism: with bounce disabled, a body that
\* crosses the bottom boundary ends the step at y = topBoundary + radius with
\* velocityY = 0 (y = 2.4 for topBoundary 2.0 and radius 0.4).
C5_WrapEndsAboveTop ==
    (Stepped /\ ~physicsConfig.enableBounce) =>
        \A k \in Bodies :
            CrossedBottom(k) =>
                /\ spheres[k].y = physicsConfig.topBoundary + spheres[k].radius
                /\ spheres[k].velocityY = 0

\* C5 (amended).  With bounce disabled, a body that crosses the bottom
\* boundary ends the step at y = topBoundary - radius with velocityY = 0
\* (y = 1.6 for topBoundary 2.0 and radius 0.4).
C5_WrapEndsBelowTop ==
    (Stepped /\ ~physicsConfig.enableBounce) =>
        \A k \in Bodies :
            CrossedBottom(k) =>
                /\ spheres[k].y = physicsConfig.topBoundary - spheres[k].radius
                /\ spheres[k].velocityY = 0

\* The case of the claim: topBoundary 2.0, bottomBoundary -2.0, radius 0.4,
\* bounce disabled, y = -2.1 and velocityY = -1.0 before the step, y = 1.6 and
\* velocityY = 0 after it.
C5_Witness ==
    /\ steps = 1
    /\ ~physicsConfig.enableBounce
    /\ physicsConfig.topBoundary = 2 * PosPerUnit
    /\ physicsConfig.bottomBoundary = (-2) * PosPerUnit
    /\ prev[1].radius = Pos(4)
    /\ prev[1].y = Pos(-21)
    /\ prev[1].velocityY = Vel(-10)
    /\ CrossedBottom(1)
    /\ spheres[1].y = Pos(16)
    /\ spheres[1].velocityY = 0

\* Body k as the top check of the last step found it.
BeforeTop(k) == checkBottom(Moved(k), physicsConfig)

\* C6.  Top-boundary re-clamp: after every step every body has
\* y + radius <= topBoundary, and a body the top check found with
\* y + radius > topBoundary (one wrapped from the bottom in the same step
\* included) ends the step at y = topBoundary - radius with velocityY = 0,
\* with bounce enabled or disabled.
C6_TopReclamp ==
    Stepped =>
        \A k \in Bodies :
            /\ spheres[k].y + spheres[k].radius <= physicsConfig.topBoundary
            /\ BeforeTop(k).y + BeforeTop(k).radius > physicsConfig.topBoundary
                   => /\ spheres[k].y = physicsConfig.topBoundary - spheres[k].radius
                      /\ spheres[k].velocityY = 0

\* With bounce enabled, a rising body crossed the top boundary and was
\* clamped to it.
C6_Witness ==
    /\ Stepped
    /\ physicsConfig.enableBounce
    /\ \E k \in Bodies :
          /\ ~CrossedBottom(k)
          /\ Moved(k).velocityY > 0
          /\ Moved(k).y + Moved(k).radius > physicsConfig.topBoundary
          /\ spheres[k].y = physicsConfig.topBoundary - spheres[k].radius
          /\ spheres[k].velocityY = 0

----------------------------------------------------------------------------
\* Body k entered the last step resting on the bottom boundary.
AtRest(k) ==
    /\ prev[k].y = physicsConfig.bottomBoundary + prev[k].radius
    /\ prev[k].velocityY = 0

StillAtRest(k) ==
    /\ spheres[k].y = physicsConfig.bottomBoundary + spheres[k].radius
    /\ spheres[k].velocityY = 0

\* The body fits between the bottom and the top boundary.
FitsVertically(k) ==
    physicsConfig.bottomBoundary + 2 * prev[k].radius <= physicsConfig.topBoundary

\* C7 (as claimed).  Bounce idempotence at rest: for every configuration with
\* bounce enabled, a body with y = bottomBoundary + radius and velocityY = 0
\* at the start of a step has the same y and velocityY = 0 at its end.
C7_RestUnperturbed ==
    (Stepped /\ physicsConfig.enableBounce) =>
        \A k \in Bodies : AtRest(k) => StillAtRest(k)

\* C7 (amended).  With bounce enabled, a body resting on the bottom boundary
\* stays there with velocityY = 0 when pairwise gravity is enabled (the
\* uniform term is off), the force accumulation of the step leaves its
\* velocityY at 0, and bottomBoundary + 2 * radius <= topBoundary.
C7_RestUnperturbedWithoutPull ==
    (Stepped /\ physicsConfig.enableBounce /\ physicsConfig.enableGravity) =>
        \A k \in Bodies :
            (AtRest(k) /\ Forced(k).velocityY = 0 /\ FitsVertically(k))
                => StillAtRest(k)

\* A body resting on the bottom boundary is pulled sideways by a second body
\* at its height and is still resting after the step.
C7_Witness ==
    /\ Stepped
    /\ physicsConfig.enableBounce
    /\ physicsConfig.enableGravity
    /\ \E k \in Bodies :
          /\ AtRest(k)
          /\ FitsVertically(k)
          /\ InActivePair(k)
          /\ Forced(k).velocityX # prev[k].velocityX
          /\ Forced(k).velocityY = 0
          /\ StillAtRest(k)

\* C8 (as claimed).  Bounce damping: with bounce enabled and bounceDamping d,
\* a body that enters a step with vertical velocity v < 0 and crosses the
\* bottom boundary in it leaves the step with y = bottomBoundary + radius and
\* velocityY = -v * d.
C8_BounceReflectsEntryVelocity ==
    (Stepped /\ physicsConfig.enableBounce) =>
        \A k \in Bodies :
            (prev[k].velocityY < 0 /\ CrossedBottom(k)) =>
                /\ spheres[k].y = physicsConfig.bottomBoundary + spheres[k].radius
                /\ spheres[k].velocityY
                       = DivT((-prev[k].velocityY) * physicsConfig.bounceDamping,
                              DampingScale)

\* C8 (amended).  With bounce enabled and bounceDamping d, a body that enters
\* a step with vertical velocity v < 0, crosses the bottom boundary in it and
\* fits between the boundaries leaves the step with y = bottomBoundary +
\* radius and velocityY = -w * d, where w is its vertical velocity after the
\* velocity update of the step: v - gravity * deltaTime under uniform gravity,
\* v plus the pull of the other bodies under pairwise gravity.
C8_BounceReflectsUpdatedVelocity ==
    (Stepped /\ physicsConfig.enableBounce) =>
        \A k \in Bodies :
            (prev[k].velocityY < 0 /\ CrossedBottom(k) /\ FitsVertically(k)) =>
                LET w == IF physicsConfig.enableGravity
                         THEN Forced(k).velocityY
                         ELSE prev[k].velocityY - gravityDeltaV
                IN /\ spheres[k].y = physicsConfig.bottomBoundary + spheres[k].radius
                   /\ spheres[k].velocityY
                          = DivT((-w) * physicsConfig.bounceDamping, DampingScale)

\* The case of the claim: d = 0.8 and v = -3.0 give velocityY = 2.4 (pairwise
\* gravity enabled, no vertical pull).
C8_Witness ==
    /\ steps = 1
    /\ physicsConfig.enableBounce
    /\ physicsConfig.enableGravity
    /\ physicsConfig.bounceDamping = 8
    /\ prev[1].velocityY = Vel(-30)
    /\ Forced(1).velocityY = Vel(-30)
    /\ CrossedBottom(1)
    /\ FitsVertically(1)
    /\ spheres[1].y = physicsConfig.bottomBoundary + spheres[1].radius
    /\ spheres[1].velocityY = Vel(24)

\* Values of the static debug counter a call may find.
CounterValues == {0, 1, 59, 60}

\* C9.  Reproducibility: the body list a step produces is a function of the
\* body list and the configuration it started from, the same whatever the
\* value of the static debug counter.
C9_Reproducible ==
    Stepped =>
        \A c \in CounterValues :
            updatePhysics(prev, physicsConfig, c).spheres = spheres

\* The second step of a run: the debug counter is 1 on entry, a pair update
\* changes a velocity, and no debug report is written (one would be for a
\* counter of 0).
C9_Witness ==
    /\ steps = 2
    /\ debugCounter = 2
    /\ last.printed = 0
    /\ updatePhysics(prev, physicsConfig, 0).printed = 1
    /\ \E k \in Bodies : VelocityOf(Forced(k)) # VelocityOf(prev[k])

\* C10.  The gravity modes are mutually exclusive within a step: the force
\* accumulation runs iff pairwise gravity is enabled, the uniform term
\* velocityY -= gravity * deltaTime is applied to a body iff it is disabled,
\* exactly once, and no step applies both.
C10_ModesExclusive ==
    Stepped =>
        /\ last.forcesRan <=> physicsConfig.enableGravity
        /\ \A k \in Bodies :
              /\ last.uniformApplied[k] = IF physicsConfig.enableGravity THEN 0 ELSE 1
              /\ ~(last.forcesRan /\ last.uniformApplied[k] > 0)
              /\ ~physicsConfig.enableGravity =>
                    VelocityOf(Moved(k))
                        = <<prev[k].velocityX,
                            prev[k].velocityY - gravityDeltaV,
                            prev[k].velocityZ>>
        /\ physicsConfig.enableGravity =>
              \A f \in { calculateGravitationalForces(prev, physicsConfig, 0) } :
                  \A k \in Bodies :
                      VelocityOf(Moved(k)) = VelocityOf(f.spheres[k])

\* A uniform-gravity step of two bodies at non-zero distance: the pair update
\* would have changed their velocities and did not run.
C10_Witness ==
    /\ Stepped
    /\ ~physicsConfig.enableGravity
    /\ Len(spheres) = 2
    /\ Distance(prev[1], prev[2]) > 0
    /\ PairAcc(prev[1], prev[2]) # <<0, 0, 0>>
    /\ ~last.forcesRan
    /\ last.uniformApplied = <<1, 1>>
    /\ last.pairs = <<>>

----------------------------------------------------------------------------
\* The entries of the pair log of the last step.
Visits == 1..Len(last.log)

\* Bodies i and j entered the last step at identical positions.
SamePosition(i, j) ==
    /\ prev[i].x = prev[j].x
    /\ prev[i].y = prev[j].y
    /\ prev[i].z = prev[j].z

\* C11.  Zero-distance guard: when the two bodies of a pair have identical
\* positions the force accumulation finds distance = 0 and skips the pair:
\* it does not divide by the distance and leaves the velocities of both
\* bodies as they were; every other pair of the list is still visited, and a
\* pair at different positions is updated.
C11_ZeroDistanceSkipped ==
    (Stepped /\ last.forcesRan) =>
        /\ \A n \in Visits :
              LET e == last.log[n]
              IN IF SamePosition(e.pair[1], e.pair[2])
                 THEN e.distance = 0 /\ ~e.divided /\ e.after = e.before
                 ELSE e.distance > 0 /\ e.divided
        /\ \A i \in Bodies, j \in Bodies :
              i < j => \E n \in Visits : last.log[n].pair = <<i, j>>

\* Three bodies, the first two at the same position: their pair is skipped
\* and a pair visited after it changes a velocity.
C11_Witness ==
    /\ Stepped
    /\ last.forcesRan
    /\ Len(spheres) = 3
    /\ SamePosition(1, 2)
    /\ \E n \in Visits, n2 \in Visits :
          /\ n < n2
          /\ last.log[n].pair = <<1, 2>>
          /\ ~last.log[n].divided
          /\ last.log[n2].divided
          /\ last.log[n2].after # last.log[n2].before

----------------------------------------------------------------------------
\* The position and velocity a coordinate is left with by the two wall checks
\* of its axis, [lo, hi] being the walls: a body whose edge is beyond the low
\* wall is put at lo + radius with its velocity v turned into -v * damping,
\* and then the same for the high wall.  damping is in tenths.
AfterWalls(p, v, radius, lo, hi, damping) ==
    LET lowHit == p - radius < lo
        p1 == IF lowHit THEN lo + radius ELSE p
        v1 == IF lowHit THEN DivT((-v) * damping, DampingScale) ELSE v
        highHit == p1 + radius > hi
    IN [p |-> IF highHit THEN hi - radius ELSE p1,
        v |-> IF highHit THEN DivT((-v1) * damping, DampingScale) ELSE v1]

\* The configuration of the last step with enableBounce inverted.
OtherBounceMode == [last.config EXCEPT !.enableBounce = ~@]

\* C12.  Horizontal boundaries always bounce: the step made from the same
\* body list under the configuration that differs only in enableBounce
\* leaves the same x, z, velocityX and velocityZ in every body; and each wall
\* violation on the X and Z axes puts the body at the wall offset by its
\* radius and turns the velocity component v into -v * bounceDamping, with
\* bounce enabled or disabled.
C12_HorizontalAlwaysBounce ==
    Stepped =>
        /\ \A r \in { updatePhysics(prev, OtherBounceMode, 0) } :
              /\ Len(r.spheres) = Len(spheres)
              /\ \A k \in Bodies :
                    /\ r.spheres[k].x = spheres[k].x
                    /\ r.spheres[k].z = spheres[k].z
                    /\ r.spheres[k].velocityX = spheres[k].velocityX
                    /\ r.spheres[k].velocityZ = spheres[k].velocityZ
        /\ \A k \in Bodies :
              LET m == Moved(k)
                  ax == AfterWalls(m.x, m.velocityX, m.radius,
                                   leftBoundary, rightBoundary,
                                   last.config.bounceDamping)
                  az == AfterWalls(m.z, m.velocityZ, m.radius,
                                   frontBoundary, backBoundary,
                                   last.config.bounceDamping)
              IN /\ spheres[k].x = ax.p /\ spheres[k].velocityX = ax.v
                 /\ spheres[k].z = az.p /\ spheres[k].velocityZ = az.v

\* With bounce disabled and bounceDamping 0.8, a body moving right crossed the
\* right wall and was put back on it with its velocityX reflected and damped.
C12_Witness ==
    /\ Stepped
    /\ ~last.config.enableBounce
    /\ last.config.bounceDamping = 8
    /\ \E k \in Bodies :
          /\ Moved(k).velocityX > 0
          /\ Moved(k).x + Moved(k).radius > rightBoundary
          /\ spheres[k].x = rightBoundary - spheres[k].radius
          /\ spheres[k].velocityX = -((Moved(k).velocityX * 8) \div 10)

----------------------------------------------------------------------------
\* The last processInput call acted on a press of the key.
Acted(key) == key \in lastInput.acted

\* C13.  bounceDamping stays in [0, 1]: in the run of gravity_sim from the
\* default configuration, under any sequence of '+' and '-' presses
\* interleaved with steps, bounceDamping is within [0, 1] in every state, so
\* at every call of updatePhysics; a press of '+' adds 0.1 and a press of '-'
\* subtracts 0.1, the result cut to [0, 1] by the same assignment.
C13_DampingInRange ==
    /\ physicsConfig.bounceDamping \in 0..DampingScale
    /\ Stepped => last.config.bounceDamping \in 0..DampingScale
    /\ (inputs > 0 /\ pc = "physics") =>
          LET before == lastInput.config.bounceDamping
              after == physicsConfig.bounceDamping
          IN /\ (Acted("EQUAL") /\ ~Acted("MINUS")) =>
                    after = IF before + 1 > DampingScale
                            THEN DampingScale ELSE before + 1
             /\ (Acted("MINUS") /\ ~Acted("EQUAL")) =>
                    after = IF before - 1 < 0 THEN 0 ELSE before - 1
             /\ (~Acted("MINUS") /\ ~Acted("EQUAL")) => after = before

\* Ten presses of '-' have taken bounceDamping from 1.0 to 0, steps have run
\* with the values in between, and an eleventh press leaves it at 0.
C13_Witness ==
    /\ pc = "physics"
    /\ steps > 0
    /\ Acted("MINUS")
    /\ lastInput.config.bounceDamping = 0
    /\ physicsConfig.bounceDamping = 0

----------------------------------------------------------------------------
\* C14 (as claimed).  Precondition violations are rejected before the
\* simulation starts: a body with mass <= 0 or a configuration with
\* bottomBoundary >= topBoundary is refused when it is constructed or
\* configured, so no call of updatePhysics is made on such values.
C14_PreconditionsRejected ==
    Stepped =>
        /\ \A k \in 1..Len(prev) : prev[k].mass > 0
        /\ last.config.bottomBoundary < last.config.topBoundary

----------------------------------------------------------------------------
\* C15 (as claimed).  Reset restores initial velocities: when processInput
\* has acted on a press of R, at any point of the run and after any steps
\* and velocity-scaling presses, every body's velocityZ equals the value the
\* body was created with.
C15_ResetRestoresInitial ==
    (pc = "physics" /\ Acted("R")) =>
        \A k \in Bodies : spheres[k].velocityZ = start[k].velocityZ

----------------------------------------------------------------------------
\* C16.  ForceAccumulator frame: calculateGravitationalForces changes only
\* velocity fields: the list it leaves has as many bodies as the list it was
\* given, and every body has the position (x, y, z), mass, radius and color
\* it had before the call.
C16_ForcesChangeOnlyVelocity ==
    (Stepped /\ last.forcesRan) =>
        /\ Len(last.forced) = Len(prev)
        /\ \A k \in 1..Len(prev) :
              /\ Forced(k).x = prev[k].x
              /\ Forced(k).y = prev[k].y
              /\ Forced(k).z = prev[k].z
              /\ Forced(k).mass = prev[k].mass
              /\ Forced(k).radius = prev[k].radius
              /\ Forced(k).color = prev[k].color

\* The force accumulation changed the velocity of a body that was moving
\* (so that the step then changed its position) and left it where it was.
C16_Witness ==
    /\ Stepped
    /\ last.forcesRan
    /\ \E k \in Bodies :
          /\ VelocityOf(Forced(k)) # VelocityOf(prev[k])
          /\ Forced(k).x = prev[k].x
          /\ Forced(k).y = prev[k].y
          /\ Forced(k).z = prev[k].z
          /\ Moved(k).z # prev[k].z

----------------------------------------------------------------------------
\* C17.  Step frame: updatePhysics never changes a body's color, mass or
\* radius, never adds or removes a body (the list has the length it started
\* with after any number of steps) and leaves the configuration as it was
\* given; only positions and velocities change.
C17_StepFrame ==
    Stepped =>
        /\ Len(spheres) = Len(prev)
        /\ Len(spheres) = Len(start)
        /\ \A k \in 1..Len(prev) :
              /\ spheres[k].color = prev[k].color
              /\ spheres[k].mass = prev[k].mass
              /\ spheres[k].radius = prev[k].radius
        /\ physicsConfig = last.config

\* With bounce disabled, a body of a list of three wrapped from the bottom
\* boundary: its position and velocity changed, and the list still has three
\* bodies.
C17_Witness ==
    /\ Stepped
    /\ ~physicsConfig.enableBounce
    /\ Len(prev) = 3
    /\ Len(spheres) = 3
    /\ \E k \in Bodies :
          /\ CrossedBottom(k)
          /\ spheres[k].y # prev[k].y
          /\ spheres[k].velocityY # prev[k].velocityY
    /\ physicsConfig = last.config

----------------------------------------------------------------------------
\* The velocity the n-th pair update of the last step left body k with (k is
\* one of the two bodies of that pair).
VelocityAfterVisit(n, k) ==
    IF last.log[n].pair[1] = k THEN last.log[n].after[1] ELSE last.log[n].after[2]

\* The n-th pair visited in the last step is the last one that includes k.
LastVisitOf(n, k) ==
    /\ k \in { last.log[n].pair[1], last.log[n].pair[2] }
    /\ \A n2 \in Visits :
          n2 > n => k \notin { last.log[n2].pair[1], last.log[n2].pair[2] }

\* C18.  Semi-implicit Euler ordering: in one step the velocity of every body
\* is fully updated before its position is advanced, and the position
\* advances by exactly the updated velocity times deltaTime.  Under uniform
\* gravity the updated velocity is the old one with gravity * deltaTime taken
\* from velocityY; under pairwise gravity it is the velocity the last pair
\* update that includes the body left (the old one for a body in no pair).
C18_VelocityBeforePosition ==
    Stepped =>
        \A k \in Bodies :
            /\ IF last.config.enableGravity
               THEN /\ VelocityOf(Moved(k)) = VelocityOf(Forced(k))
                    /\ \A n \in Visits :
                          LastVisitOf(n, k) =>
                              VelocityOf(Moved(k)) = VelocityAfterVisit(n, k)
                    /\ (\A n \in Visits : ~LastVisitOf(n, k)) =>
                          VelocityOf(Moved(k)) = VelocityOf(prev[k])
               ELSE VelocityOf(Moved(k))
                        = <<prev[k].velocityX,
                            prev[k].velocityY - gravityDeltaV,
                            prev[k].velocityZ>>
            /\ Moved(k).x = prev[k].x + Moved(k).velocityX
            /\ Moved(k).y = prev[k].y + Moved(k).velocityY
            /\ Moved(k).z = prev[k].z + Moved(k).velocityZ

\* Under uniform gravity a body at rest at y = 0 was advanced by the velocity
\* the step had just given it, not by the zero velocity it entered with.
C18_Witness ==
    /\ Stepped
    /\ ~last.config.enableGravity
    /\ \E k \in Bodies :
          /\ prev[k].y = 0
          /\ prev[k].velocityY = 0
          /\ Moved(k).velocityY = -gravityDeltaV
          /\ Moved(k).y = -gravityDeltaV

----------------------------------------------------------------------------
\* C19.  Input and step never overlap: in every frame of the render loop
\* processInput has run to completion when updatePhysics starts, and
\* updatePhysics has run to completion (every body has gone through its
\* boundary checks) when the bodies are drawn; the step starts from exactly
\* the configuration and the body list the input layer left and runs on that
\* configuration to its end, so flags, bounceDamping and velocities are
\* written by the input layer only between two steps.
C19_InputThenStepThenRender ==
    /\ pc \in {"input", "done"} => (inputs = steps /\ steps = renders)
    /\ pc = "physics" => (inputs = steps + 1 /\ steps = renders)
    /\ pc = "render" => (inputs = steps /\ steps = renders + 1)
    /\ pc = "physics" =>
          /\ lastInput.configLeft = physicsConfig
          /\ lastInput.spheresLeft = spheres
          /\ lastInput.spheres = IF renders > 0 THEN drawn ELSE start
    /\ pc \in {"render", "input", "done"} /\ Stepped =>
          /\ prev = lastInput.spheresLeft
          /\ last.config = lastInput.configLeft
          /\ physicsConfig = last.config
          /\ spheres = [k \in 1..Len(prev) |-> resolveBoundaries(Moved(k), last.config)]
    /\ pc \in {"input", "done"} /\ renders > 0 => drawn = spheres

\* A frame in which a press of UP was acted on: the input layer scaled the
\* velocities, the step ran on the list the input layer left, and its result
\* was drawn.
C19_Witness ==
    /\ pc = "input"
    /\ renders > 1
    /\ Acted("UP")
    /\ lastInput.spheresLeft # lastInput.spheres
    /\ prev = lastInput.spheresLeft
    /\ spheres # prev
    /\ drawn = spheres

----------------------------------------------------------------------------
\* C20.  Pair coverage and order: with pairwise gravity enabled, one step on a
\* list of N bodies visits N * (N - 1) / 2 pairs; every pair (i, j) visited
\* has i < j (no body is paired with itself), the visits are in ascending i
\* and then ascending j (so no pair is visited twice), and every pair i < j
\* is visited.
C20_PairsOnceInOrder ==
    (Stepped /\ last.forcesRan) =>
        LET N == Len(prev)
            visited == last.pairs
        IN /\ Len(visited) = (N * (N - 1)) \div 2
           /\ \A a \in 1..Len(visited) :
                 /\ visited[a][1] \in 1..N
                 /\ visited[a][2] \in 1..N
                 /\ visited[a][1] < visited[a][2]
           /\ \A a \in 1..Len(visited), b \in 1..Len(visited) :
                 a < b =>
                     \/ visited[a][1] < visited[b][1]
                     \/ /\ visited[a][1] = visited[b][1]
                        /\ visited[a][2] < visited[b][2]
           /\ \A i \in 1..N, j \in 1..N :
                 i < j => \E a \in 1..Len(visited) : visited[a] = <<i, j>>

\* A step on three bodies visited the three pairs (1, 2), (1, 3), (2, 3), in
\* that order.
C20_Witness ==
    /\ Stepped
    /\ last.forcesRan
    /\ Len(prev) = 3
    /\ last.pairs = << <<1, 2>>, <<1, 3>>, <<2, 3>> >>

----------------------------------------------------------------------------
\* C21.  Vertical containment: after every step, every body with
\* topBoundary - bottomBoundary >= 2 * radius has
\* bottomBoundary + radius <= y <= topBoundary - radius, in bounce and in wrap
\* mode, in both gravity modes, whatever its position and velocity were.
C21_VerticalContainment ==
    Stepped =>
        \A k \in Bodies :
            last.config.topBoundary - last.config.bottomBoundary
                    >= 2 * spheres[k].radius
                => /\ last.config.bottomBoundary + spheres[k].radius <= spheres[k].y
                   /\ spheres[k].y <= last.config.topBoundary - spheres[k].radius

\* With bounce enabled, a body of radius 0.4 that started below the bottom
\* boundary was put back on it.
C21_Witness ==
    /\ Stepped
    /\ last.config.enableBounce
    /\ \E k \in Bodies :
          /\ last.config.topBoundary - last.config.bottomBoundary
                 >= 2 * spheres[k].radius
          /\ prev[k].y - prev[k].radius < last.config.bottomBoundary
          /\ CrossedBottom(k)
          /\ spheres[k].y = last.config.bottomBoundary + spheres[k].radius

----------------------------------------------------------------------------
\* C22.  Scope of the clamp inside the force accumulation: after
\* calculateGravitationalForces every body that took part in at least one
\* pair at non-zero distance has its three velocity components in [-10, 10];
\* a body all of whose pairs had zero distance, or a lone body, has exactly
\* the velocity it entered with, inside [-10, 10] or not.
C22_ClampScope ==
    (Stepped /\ last.forcesRan) =>
        \A k \in 1..Len(prev) :
            IF InActivePair(k)
            THEN \A c \in 1..3 : InClamp(VelocityOf(Forced(k))[c])
            ELSE VelocityOf(Forced(k)) = VelocityOf(prev[k])

\* Two bodies at the same position, both with velocityZ = 12: their pair was
\* visited and both left the force accumulation with velocityZ = 12.
C22_Witness ==
    /\ Stepped
    /\ last.forcesRan
    /\ Len(prev) = 2
    /\ last.pairs = << <<1, 2>> >>
    /\ \A k \in 1..2 :
          /\ ~InActivePair(k)
          /\ prev[k].velocityZ > maxVelocity
          /\ Forced(k).velocityZ = prev[k].velocityZ

----------------------------------------------------------------------------
\* C23.  Boundary resolution never amplifies velocity: with bounceDamping in
\* [0, 1], for every body and every axis the absolute value of the velocity
\* component after the boundary checks of a step is at most its absolute
\* value just before them.
C23_NoAmplification ==
    (Stepped /\ last.config.bounceDamping \in 0..DampingScale) =>
        \A k \in Bodies :
            \A c \in 1..3 :
                Abs(VelocityOf(spheres[k])[c]) <= Abs(VelocityOf(Moved(k))[c])

\* A body met a side wall with bounceDamping = 0.8 and left the step slower on
\* that axis, in the opposite direction, and still moving.
C23_Witness ==
    /\ Stepped
    /\ last.config.bounceDamping = 8
    /\ \E k \in Bodies :
          /\ Moved(k).x - Moved(k).radius < leftBoundary
                \/ Moved(k).x + Moved(k).radius > rightBoundary
          /\ spheres[k].velocityX # 0
          /\ spheres[k].velocityX = Reflect(Moved(k).velocityX, last.config)
          /\ Abs(spheres[k].velocityX) < Abs(Moved(k).velocityX)

----------------------------------------------------------------------------
\* C24.  Key debounce: the B block and the G block act in exactly the calls of
\* processInput that see their key down after having seen it up (or in the
\* first call that sees it down), however many frames the key is then held;
\* so after any sequence of frames enableBounce and enableGravity equal their
\* initial values flipped once per observed release-to-press transition.
C24_ToggleOncePerPress ==
    /\ lastInput.acted \cap ToggleKeys = lastInput.rose \cap ToggleKeys
    /\ physicsConfig.enableBounce
          = (DefaultConfig.enableBounce = (lastInput.transitions["B"] % 2 = 0))
    /\ physicsConfig.enableGravity
          = (DefaultConfig.enableGravity = (lastInput.transitions["G"] % 2 = 0))

\* B was down in two consecutive calls of processInput: the second call did
\* not act on it, and enableBounce is the initial value flipped once.
C24_Witness ==
    /\ inputs >= 2
    /\ "B" \in lastInput.keys
    /\ "B" \notin lastInput.rose
    /\ ~Acted("B")
    /\ lastInput.transitions["B"] = 1
    /\ physicsConfig.enableBounce = ~DefaultConfig.enableBounce

----------------------------------------------------------------------------
\* The step as two passes over the whole list: every body is given its
\* velocity update and its position update, and only then every body is
\* given its boundary checks.
IntegratorPhase(list, config) ==
    [k \in 1..Len(list) |-> movedSphere(list[k], config)]

BoundaryResolverPhase(list, config) ==
    [k \in 1..Len(list) |-> resolveBoundaries(list[k], config)]

\* C25.  Phase structure equivalence: the single loop, which finishes a body
\* (uniform gravity, position, boundary checks) before it begins the next,
\* leaves the same body list as the two passes made one after the other over
\* the list the force accumulation left.
C25_LoopEqualsPhases ==
    Stepped =>
        spheres = BoundaryResolverPhase(
                      IntegratorPhase(last.forced, last.config), last.config)

\* A step on several bodies in which a body early in the list was changed by
\* its boundary checks and a later body was moved.
C25_Witness ==
    /\ Stepped
    /\ \E i, j \in Bodies :
          /\ i < j
          /\ spheres[i] # Moved(i)
          /\ Moved(j) # Forced(j)
          /\ spheres[j] = resolveBoundaries(Moved(j), last.config)

====
